---- MODULE Spec2Model ----
(***************************************************************************)
(* Model of OpenSkySensor.py: the rate-limited fetch-or-cache sensor       *)
(* adapter (has_updates, get_content, get_all, _fetch_data), the payload   *)
(* transformation (_create_content) and its two helpers (get_trackdir,     *)
(* get_typeofaircraft).  The module is run as the program                  *)
(* (__name__ == "__main__"), so the global name `sensor` is bound to the   *)
(* OpenSkySensor instance before any method is called.                     *)
(***************************************************************************)
EXTENDS Integers, Sequences, FiniteSets, TLC

\* ------------------------------------------------------------------ bounds
MaxHeading == 359
MaxCodes == 3
MaxVecs == 2
MaxTime == 4
request_delta == 1

\* ------------------------------------------------------- python values
\* A JSON scalar of the payload: a number, null, or a (non-numeric) string.
Num(n) == [t |-> "num", v |-> n]
NullV == [t |-> "null", v |-> 0]
StrV == [t |-> "str", v |-> 0]

\* What a call hands back: None, a list, an int, or a raised exception.
None == [t |-> "None", v |-> <<>>, n |-> 0]
List(s) == [t |-> "list", v |-> s, n |-> 0]
IntV(i) == [t |-> "int", v |-> <<>>, n |-> i]
Raise(e) == [t |-> e, v |-> <<>>, n |-> 0]
NotCalled == [t |-> "-", v |-> <<>>, n |-> 0]

Raised(x) == x.t \in {"TypeError", "IndexError"}

\* ------------------------------------------------------- class constants
CONV_ALT == 3281
CONV_SPD == 2237

\* TRACK_LIST in insertion order; the keys are decimal strings, kept as
\* their digits.
TRACK_LIST ==
    << [key |-> <<0>>,       dir |-> "North"],
       [key |-> <<4, 5>>,    dir |-> "NorthEast"],
       [key |-> <<9, 0>>,    dir |-> "East"],
       [key |-> <<1, 3, 5>>, dir |-> "SouthEast"],
       [key |-> <<1, 8, 0>>, dir |-> "South"],
       [key |-> <<2, 2, 5>>, dir |-> "SouthWest"],
       [key |-> <<2, 7, 0>>, dir |-> "West"],
       [key |-> <<3, 1, 5>>, dir |-> "NorthWest"] >>

\* int(degree) on a decimal string
RECURSIVE int(_)
int(digits) ==
    IF digits = <<>> THEN 0
    ELSE 10 * int(SubSeq(digits, 1, Len(digits) - 1)) + digits[Len(digits)]

\* ------------------------------------------------------- get_trackdir
\* The for-loop of get_trackdir from entry i on; tt is true_track so far.
RECURSIVE TrackLoop(_, _, _)
TrackLoop(i, ft, tt) ==
    IF i > Len(TRACK_LIST) THEN tt
    ELSE LET degree == TRACK_LIST[i].key
             t1 == IF (int(degree) - ft) <= 1 THEN TRACK_LIST[i].dir ELSE tt
             t2 == IF (int(degree) > ft) /\ ((int(degree) - ft) < 45)
                   THEN TRACK_LIST[i].dir ELSE t1
         IN  TrackLoop(i + 1, ft, t2)

\* get_trackdir: "None" for a null heading, "[]" when the arithmetic raises
\* TypeError (a string heading other than the literal "null"), otherwise
\* whatever the loop leaves in true_track.
get_trackdir(ft) ==
    IF ft.t = "null" THEN "None"
    ELSE IF ft.t = "str" THEN "[]"
    ELSE TrackLoop(1, ft.v, "")

\* ------------------------------------------------------- get_typeofaircraft
Ids == {"a1", "b2", "c3"}
Makers == {"Boeing", "Airbus"}
ModelOf(m) == IF m = "Boeing" THEN "b737" ELSE "a320"
CodeEntries == {[icao24 |-> i, manufacturer |-> m, model |-> ModelOf(m)] :
                    i \in Ids, m \in Makers}

RECURSIVE SeqsUpTo(_, _)
SeqsUpTo(S, n) ==
    IF n = 0 THEN {<<>>}
    ELSE LET shorter == SeqsUpTo(S, n - 1)
         IN  shorter \cup {Append(s, x) : s \in {q \in shorter : Len(q) = n - 1}, x \in S}

\* the inner loop over codes, from entry c on, with its break
RECURSIVE TypeInner(_, _, _, _, _)
TypeInner(cs, c, id, mfc, mod) ==
    IF c > Len(cs) THEN <<mfc, mod>>
    ELSE IF cs[c].icao24 = id
         THEN <<cs[c].manufacturer, cs[c].model>>
         ELSE TypeInner(cs, c + 1, id, "Unidentified", "Unknown")

\* the outer loop, once per key of ft_dict
RECURSIVE TypeOuter(_, _, _, _, _, _, _)
TypeOuter(cs, i, n, id, mfc, mod, ftype) ==
    IF i >= n THEN ftype
    ELSE LET r == TypeInner(cs, 1, id, mfc, mod)
         IN  TypeOuter(cs, i + 1, n, id, r[1], r[2],
                       [Manufacturer |-> r[1], Model |-> r[2]])

\* f_type = {} : neither key present
EmptyDict == [Manufacturer |-> "<no key>", Model |-> "<no key>"]

\* get_typeofaircraft(ft_dict) against the table loaded from Aircrafts.json;
\* d is the dictionary: its key set and its icao24.
get_typeofaircraft(cs, d) ==
    TypeOuter(cs, 0, Cardinality(d.keys), d.icao24, "", "", EmptyDict)

\* ------------------------------------------------------- _create_content
\* str.upper() on the names that occur
Upper(s) ==
    CASE s = "Boeing" -> "BOEING"
      [] s = "Airbus" -> "AIRBUS"
      [] s = "b737" -> "B737"
      [] s = "a320" -> "A320"
      [] s = "Unidentified" -> "UNIDENTIFIED"
      [] s = "Unknown" -> "UNKNOWN"
      [] OTHER -> s

\* '{:.2f}'.format(x * factor): factor is in thousandths, the result in
\* hundredths, rounded to the nearest.
Fmt2(x, factor) ==
    LET m == x * factor
    IN  IF m >= 0 THEN (m + 5) \div 10 ELSE -((5 - m) \div 10)

\* A state vector is a JSON array; len is its length and the fields are the
\* elements the code reads: v[0], v[9], v[10], v[11], v[13].  (v[1], v[5],
\* v[6] are copied into f_list and never read again.)
IsNum(x) == x.t = "num"

NoVectors == [Speed |-> NullV, TrackDir |-> NullV, VertRate |-> NullV, GeoAlt |-> NullV]
NewDict == [keys |-> {}, icao24 |-> "", Vectors |-> NoVectors, Type |-> EmptyDict]

\* f_out of one iteration, built from the working dictionary
f_out(fa) ==
    [k |-> fa.icao24,
     caption |-> <<Upper(fa.Type.Manufacturer), Upper(fa.Type.Model)>>,
     summary |-> [track |-> fa.Vectors.TrackDir,
                  dir |-> get_trackdir(fa.Vectors.TrackDir),
                  alt |-> Fmt2(fa.Vectors.GeoAlt.v, CONV_ALT),
                  speed |-> Fmt2(fa.Vectors.Speed.v, CONV_SPD),
                  vert_Pos |-> IF fa.Vectors.VertRate.v > 0 THEN "CLIMBING" ELSE "DESCENDING",
                  rate |-> Fmt2(fa.Vectors.VertRate.v, CONV_ALT)]]

\* The for-loop over fs_json['states'] from vector i on.  fa is f_aircraft,
\* the one dictionary reused by every iteration; rec is record so far.
\* A short vector raises IndexError, which the except clause does not name;
\* arithmetic or comparison on a non-number raises TypeError, which it does.
RECURSIVE CreateLoop(_, _, _, _, _)
CreateLoop(cs, vecs, i, fa, rec) ==
    IF i > Len(vecs) THEN List(rec)
    ELSE LET v == vecs[i]
         IN  IF v.len <= 13 THEN Raise("IndexError")
             ELSE LET fa1 == [fa EXCEPT !.keys = @ \cup {"icao24"}, !.icao24 = v.icao24]
                      f_list == [Speed |-> v.speed, TrackDir |-> v.track,
                                 VertRate |-> v.vertrate, GeoAlt |-> v.geoalt]
                      ftype == get_typeofaircraft(cs, fa1)
                      fa2 == [fa1 EXCEPT !.keys = @ \cup {"Vectors", "Type"},
                                         !.Vectors = f_list, !.Type = ftype]
                  IN  IF ~(IsNum(v.vertrate) /\ IsNum(v.geoalt) /\ IsNum(v.speed))
                      THEN List(<<>>)
                      ELSE CreateLoop(cs, vecs, i + 1, fa2, Append(rec, f_out(fa2)))

\* _create_content as it would behave if the loop appended the reused working
\* dictionary itself: every element then shows the last vector.
create_content_alias(cs, fs) ==
    LET c == IF fs.states.kind = "missing" THEN List(<<>>)
             ELSE IF fs.states.kind \in {"nullstr", "null"} THEN None
             ELSE IF fs.time # "ok" THEN List(<<>>)
             ELSE CreateLoop(cs, fs.states.vecs, 1, NewDict, <<>>)
    IN  IF c.t = "list" /\ Len(c.v) > 0
        THEN List([i \in 1..Len(c.v) |-> c.v[Len(c.v)]])
        ELSE c

\* _create_content(fs_json): fs is the parsed body,
\* [time, states |-> [kind, vecs]]; kind is "missing" (no 'states' key),
\* "null" (None), "nullstr" (the string "null") or "list".
create_content(cs, fs) ==
    IF fs.states.kind = "missing" THEN List(<<>>)
    ELSE IF fs.states.kind \in {"nullstr", "null"} THEN None
    ELSE IF fs.time # "ok" THEN List(<<>>)
    ELSE CreateLoop(cs, fs.states.vecs, 1, NewDict, <<>>)

\* ------------------------------------------------------- SensorX (base class)
\* The gate: a fetch is permitted when no fetch has been recorded yet
\* (last_used = 0) or more than request_delta seconds have passed since.
request_allowed(lu, t) == lu = 0 \/ t - lu > request_delta

read_buffer(buf) == buf

write_buffer(buf, content) == content

\* ------------------------------------------------------- the service
NoJson == [time |-> "missing", states |-> [kind |-> "missing", vecs |-> <<>>]]
Failure(e) == [exc |-> e, status |-> 0, parse |-> FALSE, json |-> NoJson]
Status(c) == [exc |-> "", status |-> c, parse |-> FALSE, json |-> NoJson]
Body(j) == [exc |-> "", status |-> 200, parse |-> TRUE, json |-> j]
States(vecs) == [time |-> "ok", states |-> [kind |-> "list", vecs |-> vecs]]
NullStates == [time |-> "ok", states |-> [kind |-> "null", vecs |-> <<>>]]
NullStrStates == [time |-> "ok", states |-> [kind |-> "nullstr", vecs |-> <<>>]]

Vec(id, tr, vr, n) ==
    [len |-> n, icao24 |-> id, track |-> tr, vertrate |-> vr,
     geoalt |-> Num(1000), speed |-> Num(100)]

\* ------------------------------------------------------- _fetch_data
\* _fetch_data as it would behave if _write_buffer(content) followed the
\* if/else instead of sitting in the 200 branch.
fetch_data_write_always(cs, r, buf, lu, t) ==
    IF r.exc # ""
    THEN [content |-> None, buffer |-> buf, last_used |-> lu, reqs |-> 1]
    ELSE IF r.status = 200 /\ r.parse
         THEN LET content == create_content(cs, r.json)
              IN  IF Raised(content)
                  THEN [content |-> content, buffer |-> buf, last_used |-> t, reqs |-> 1]
                  ELSE [content |-> content, buffer |-> write_buffer(buf, content),
                        last_used |-> t, reqs |-> 1]
         ELSE IF r.status = 200
              THEN [content |-> None, buffer |-> buf, last_used |-> t, reqs |-> 1]
              ELSE [content |-> None, buffer |-> write_buffer(buf, None),
                    last_used |-> t, reqs |-> 1]

\* One HTTP GET answered by r.  Yields the returned content (or the raised
\* exception), the buffer and last_used afterwards, and the requests issued.
fetch_data(cs, r, buf, lu, t) ==
    IF r.exc # ""
    THEN [content |-> None, buffer |-> buf, last_used |-> lu, reqs |-> 1]
    ELSE IF r.status = 200
         THEN IF ~r.parse
              THEN [content |-> None, buffer |-> buf, last_used |-> t, reqs |-> 1]
              ELSE LET content == create_content(cs, r.json)
                   IN  IF Raised(content)
                       THEN [content |-> content, buffer |-> buf, last_used |-> t, reqs |-> 1]
                       ELSE [content |-> content, buffer |-> write_buffer(buf, content),
                             last_used |-> t, reqs |-> 1]
         ELSE [content |-> None, buffer |-> buf, last_used |-> t, reqs |-> 1]

\* ------------------------------------------------------- get_all
\* get_all as it would behave without the gate
get_all_ungated(cs, r, buf, lu, t) == fetch_data(cs, r, buf, lu, t)

get_all(cs, r, buf, lu, t) ==
    IF request_allowed(lu, t)
    THEN fetch_data(cs, r, buf, lu, t)
    ELSE [content |-> read_buffer(buf), buffer |-> buf, last_used |-> lu, reqs |-> 0]

\* len(content) and content[0]['k'] != k, as both callers write it
NonEmptyAndNew(content, k) == 0 < Len(content.v) /\ content.v[1].k # k

\* ------------------------------------------------------- has_updates
has_updates(cs, r, buf, lu, t, k) ==
    IF request_allowed(lu, t)
    THEN LET f == fetch_data(cs, r, buf, lu, t)
         IN  IF Raised(f.content) THEN f
             ELSE IF f.content.t = "None" THEN [f EXCEPT !.content = Raise("TypeError")]
             ELSE IF NonEmptyAndNew(f.content, k) THEN [f EXCEPT !.content = IntV(1)]
             ELSE [f EXCEPT !.content = IntV(0)]
    ELSE [content |-> IntV(0), buffer |-> buf, last_used |-> lu, reqs |-> 0]

\* ------------------------------------------------------- get_content
get_content(cs, r, buf, lu, t, k) ==
    LET g == get_all(cs, r, buf, lu, t)
    IN  IF Raised(g.content) THEN g
        ELSE IF g.content.t = "None" THEN [g EXCEPT !.content = Raise("TypeError")]
        ELSE IF NonEmptyAndNew(g.content, k) THEN g
        ELSE [g EXCEPT !.content = None]

\* ------------------------------------------------------- state
VARIABLES
    now,          \* int(time.time())
    last_used,    \* props['last_used']
    buffer,       \* what _read_buffer would return
    codes,        \* the table in Aircrafts.json
    op,           \* the last public call: "get_all", "has_updates", "get_content"
    key,          \* its argument k
    resp,         \* the service's answer to its request (if it made one)
    gate,         \* _request_allowed() as that call found it
    before,       \* the buffer as that call found it
    ret,          \* what it returned or raised
    fetched,      \* what its _fetch_data returned or raised (NotCalled if none)
    reqs,         \* HTTP requests it issued
    lastAt,       \* when it was made
    prevOp, prevRet, prevAt, prevSrc,   \* the call before it
    f_track, true_track,    \* get_trackdir: argument and result
    ft_dict, f_type,        \* get_typeofaircraft: argument and result
    fs_json, record         \* _create_content: argument and result

sensorVars == <<now, last_used, buffer, op, key, resp, gate, before, ret, fetched,
                reqs, lastAt, prevOp, prevRet, prevAt, prevSrc>>
pureVars == <<f_track, true_track, ft_dict, f_type, fs_json, record>>
vars == <<sensorVars, codes, pureVars>>

\* ------------------------------------------------------- inputs
VecIds == {"a1", "b2"}

Keys == {"a1", "zz"}

VecA == Vec("a1", Num(90), Num(1), 17)
VecB == Vec("b2", Num(1), Num(-1), 17)
VecNull == Vec("b2", Num(90), NullV, 17)
VecShort == Vec("b2", Num(90), Num(1), 5)
SensorTables == {<<[icao24 |-> "a1", manufacturer |-> "Boeing", model |-> "b737"]>>}
Responses ==
    {Failure("ConnectionError"), Failure("Timeout"), Status(503), Status(200)}
    \cup {Body(NullStates), Body(NoJson)}
    \cup {Body(States(vs)) : vs \in {<<>>, <<VecA>>, <<VecB, VecA>>,
                                      <<VecA, VecNull>>, <<VecA, VecShort>>}}

TrackInputs == {Num(h) : h \in 0..MaxHeading} \cup {NullV, StrV}
Dicts == {[keys |-> ks, icao24 |-> i] :
            ks \in {{"icao24"}, {"icao24", "Vectors", "Type"}}, i \in Ids}
ContentVecs == {Vec(i, tr, vr, n) : i \in VecIds, tr \in {NullV, Num(91)},
                                    vr \in {Num(1), Num(-1), NullV}, n \in {17, 5}}
Payloads == {NullStates, NullStrStates, NoJson} \cup {States(vs) : vs \in SeqsUpTo(ContentVecs, MaxVecs)}

\* ------------------------------------------------------- the sensor
\* how the last call came by its result
Src(g, r) ==
    IF ~g THEN "cache"
    ELSE IF r.exc # "" THEN "neterr"
    ELSE IF r.status # 200 THEN "status"
    ELSE IF ~r.parse THEN "body"
    ELSE "json"

PureInit ==
    /\ f_track = NullV /\ true_track = "-"
    /\ ft_dict = [keys |-> {"icao24"}, icao24 |-> "a1"] /\ f_type = EmptyDict
    /\ fs_json = NoJson /\ record = NotCalled

Init ==
    /\ now = 1 /\ last_used = 0 /\ buffer = List(<<>>)
    /\ codes \in SensorTables
    /\ op = "init" /\ key = "zz" /\ resp = Status(0) /\ gate = FALSE
    /\ before = List(<<>>) /\ ret = NotCalled /\ fetched = NotCalled
    /\ reqs = 0 /\ lastAt = 0
    /\ prevOp = "init" /\ prevRet = NotCalled /\ prevAt = 0 /\ prevSrc = "init"
    /\ PureInit

\* bookkeeping shared by the three calls: res is what the call computed
Called(name, k, r, res) ==
    LET g == request_allowed(last_used, now)
    IN  /\ op' = name /\ key' = k
        /\ resp' = IF g THEN r ELSE Status(0)
        /\ gate' = g
        /\ before' = buffer
        /\ ret' = res.content
        /\ fetched' = IF g THEN fetch_data(codes, r, buffer, last_used, now).content
                      ELSE NotCalled
        /\ reqs' = res.reqs
        /\ lastAt' = now
        /\ prevOp' = op /\ prevRet' = ret /\ prevAt' = lastAt
        /\ prevSrc' = IF op = "init" THEN "init" ELSE Src(gate, resp)
        /\ buffer' = res.buffer
        /\ last_used' = res.last_used
        /\ UNCHANGED <<now, codes, pureVars>>

GetAll ==
    \E r \in Responses :
        Called("get_all", "zz", r, get_all(codes, r, buffer, last_used, now))

HasUpdates ==
    \E r \in Responses, k \in Keys :
        Called("has_updates", k, r, has_updates(codes, r, buffer, last_used, now, k))

GetContent ==
    \E r \in Responses, k \in Keys :
        Called("get_content", k, r, get_content(codes, r, buffer, last_used, now, k))

\* a second passes
Tick ==
    /\ now < MaxTime
    /\ now' = now + 1
    /\ UNCHANGED <<last_used, buffer, op, key, resp, gate, before, ret, fetched,
                   reqs, lastAt, prevOp, prevRet, prevAt, prevSrc, codes, pureVars>>

Next == GetAll \/ HasUpdates \/ GetContent \/ Tick

Spec == Init /\ [][Next]_vars

\* ------------------------------------------------------- the pure functions
Idle ==
    /\ now = 1 /\ last_used = 0 /\ buffer = List(<<>>)
    /\ op = "init" /\ key = "zz" /\ resp = Status(0) /\ gate = FALSE
    /\ before = List(<<>>) /\ ret = NotCalled /\ fetched = NotCalled
    /\ reqs = 0 /\ lastAt = 0
    /\ prevOp = "init" /\ prevRet = NotCalled /\ prevAt = 0 /\ prevSrc = "init"

InitTrack ==
    /\ Idle /\ codes = <<>>
    /\ f_track \in TrackInputs /\ true_track = "-"
    /\ ft_dict = [keys |-> {"icao24"}, icao24 |-> "a1"] /\ f_type = EmptyDict
    /\ fs_json = NoJson /\ record = NotCalled

CallTrackdir ==
    /\ true_track' = get_trackdir(f_track)
    /\ UNCHANGED <<sensorVars, codes, f_track, ft_dict, f_type, fs_json, record>>

SpecTrack == InitTrack /\ [][CallTrackdir]_vars

InitType ==
    /\ Idle /\ codes \in SeqsUpTo(CodeEntries, MaxCodes)
    /\ f_track = NullV /\ true_track = "-"
    /\ ft_dict \in Dicts /\ f_type = EmptyDict
    /\ fs_json = NoJson /\ record = NotCalled

CallTypeOfAircraft ==
    /\ f_type' = get_typeofaircraft(codes, ft_dict)
    /\ UNCHANGED <<sensorVars, codes, f_track, true_track, ft_dict, fs_json, record>>

SpecType == InitType /\ [][CallTypeOfAircraft]_vars

InitContent ==
    /\ Idle /\ codes \in SensorTables
    /\ f_track = NullV /\ true_track = "-"
    /\ ft_dict = [keys |-> {"icao24"}, icao24 |-> "a1"] /\ f_type = EmptyDict
    /\ fs_json \in Payloads /\ record = NotCalled

CallCreateContent ==
    /\ record' = create_content(codes, fs_json)
    /\ UNCHANGED <<sensorVars, codes, f_track, true_track, ft_dict, f_type, fs_json>>

SpecContent == InitContent /\ [][CallCreateContent]_vars

\* ------------------------------------------------------- properties
IsList(x) == x.t = "list"
NonEmpty(x) == IsList(x) /\ Len(x.v) > 0
Called2 == prevOp = "get_all" /\ op = "get_all"

C2_Claim ==
    (op = "get_all" /\ gate /\ resp = Body(NullStates))
        => (ret = None /\ buffer = before)

\* C3: a fetch that ends in a network error, a timeout, a non-200 status or an
\* unparseable body makes _fetch_data return None, raise nothing and leave
\* the buffer as it was.
C3_Theorem ==
    (op # "init" /\ gate /\ Src(gate, resp) \in {"neterr", "status", "body"})
        => (fetched = None /\ buffer = before)

C3_Witness ==
    /\ op = "get_all" /\ gate /\ resp = Failure("Timeout")
    /\ NonEmpty(before) /\ buffer = before /\ fetched = None

\* a 200 body whose state list holds a short vector or a non-numeric value
Malformed(r) ==
    /\ r.exc = "" /\ r.status = 200 /\ r.parse
    /\ r.json.states.kind = "list"
    /\ \E i \in 1..Len(r.json.states.vecs) :
         LET v == r.json.states.vecs[i]
         IN  v.len <= 13 \/ ~IsNum(v.vertrate) \/ ~IsNum(v.geoalt) \/ ~IsNum(v.speed)

\* C4 as stated: a permitted get_all() answered by HTTP 200 with a malformed
\* payload returns an empty list and leaves the buffer holding the last
\* successfully parsed records.
C4_Claim ==
    (op = "get_all" /\ gate /\ Malformed(resp))
        => (ret = List(<<>>) /\ buffer = before)

\* C5 as stated: has_updates(k) never raises and returns 0 or 1; it returns 1
\* exactly when the fetch was permitted and produced a non-empty list whose
\* first key differs from k.
C5_Claim ==
    op = "has_updates"
        => /\ ret \in {IntV(0), IntV(1)}
           /\ ret = IntV(1) <=> (gate /\ NonEmpty(fetched) /\ fetched.v[1].k # key)

\* what the get_all() inside the last call produced
AllOfLast == IF gate THEN fetched ELSE before

\* C6 as stated: get_content(k) never raises; it returns get_all()'s list when
\* that is non-empty with a first key other than k, and None otherwise.
C6_Claim ==
    op = "get_content"
        => ret = IF NonEmpty(AllOfLast) /\ AllOfLast.v[1].k # key
                 THEN AllOfLast ELSE None

\* a payload with at least one vector, all of full length with numeric
\* vertical rate, altitude and speed
ValidPayload(fs) ==
    /\ fs.time = "ok" /\ fs.states.kind = "list"
    /\ Len(fs.states.vecs) >= 1
    /\ \A i \in 1..Len(fs.states.vecs) :
         LET v == fs.states.vecs[i]
         IN  v.len > 13 /\ IsNum(v.vertrate) /\ IsNum(v.geoalt) /\ IsNum(v.speed)

\* C7: for a valid payload of N vectors _create_content returns N records in
\* payload order, the i-th keyed by the i-th vector's identifier.
C7_Theorem ==
    (record # NotCalled /\ ValidPayload(fs_json))
        => /\ IsList(record)
           /\ Len(record.v) = Len(fs_json.states.vecs)
           /\ \A i \in 1..Len(record.v) :
                record.v[i].k = fs_json.states.vecs[i].icao24 /\ record.v[i].k # ""

C7_Witness ==
    /\ record # NotCalled /\ ValidPayload(fs_json)
    /\ Len(fs_json.states.vecs) = 2
    /\ fs_json.states.vecs[1].icao24 # fs_json.states.vecs[2].icao24
    /\ Len(record.v) = 2 /\ record.v[1].k # record.v[2].k

\* the tabulated octant nearest to heading h, 360 wrapping to North
NearestDir(h) == TRACK_LIST[(((2 * h + 45) \div 90) % 8) + 1].dir

\* C8 as stated: get_trackdir returns None for a null heading and, for an
\* integer heading in 0..359, the direction of the nearest tabulated octant.
C8_Claim ==
    true_track # "-"
        => /\ f_track.t = "null" => true_track = "None"
           /\ (f_track.t = "num" /\ f_track.v \in 0..359)
                => true_track = NearestDir(f_track.v)

\* the entries of cs whose icao24 is id, by position
Matches(cs, id) == {c \in 1..Len(cs) : cs[c].icao24 = id}
FirstMatch(cs, id) == CHOOSE c \in Matches(cs, id) : \A d \in Matches(cs, id) : c <= d

\* C9 as stated: get_typeofaircraft returns the first matching entry's
\* manufacturer and model, and Unidentified/Unknown when no entry matches,
\* for every table including the empty one.
C9_Claim ==
    f_type # EmptyDict
        => f_type = IF Matches(codes, ft_dict.icao24) # {}
                    THEN [Manufacturer |-> codes[FirstMatch(codes, ft_dict.icao24)].manufacturer,
                          Model |-> codes[FirstMatch(codes, ft_dict.icao24)].model]
                    ELSE [Manufacturer |-> "Unidentified", Model |-> "Unknown"]

\* C10 as stated: every call that attempts a fetch issues one request and
\* records the time of the attempt as last_used, so the gate is cooling down
\* until request_delta has passed since the attempt.
C10_Claim ==
    (op # "init" /\ gate)
        => /\ reqs = 1
           /\ last_used = lastAt
           /\ (now - lastAt <= request_delta) => ~request_allowed(last_used, now)

====
